---- MODULE Spec2Model ----
(***************************************************************************)
(* A model of scgenome: the cluster tree node (TNode.py), the Bayesian     *)
(* hierarchical clustering engine and the colour map (cncluster.py) and    *)
(* the copy-number simulation (simulation.py).                             *)
(*                                                                         *)
(* Python objects live in an arena: a TNode is a record of the sequence    *)
(* `nodes`, a reference to it is its index, and the reference None is 0.   *)
(* A call that raises leaves the arena as it was when the exception was    *)
(* thrown and reports the exception's type.                                *)
(***************************************************************************)
EXTENDS Integers, Sequences, FiniteSets, TLC

VARIABLES
    nodes,   \* the arena of TNode objects built so far
    rng,     \* the state of numpy's global random generator
    call,    \* the most recent top-level call: its arguments and outcome
    prev     \* the call before it (kept by the repeated-call scenario)

vars == <<nodes, rng, call, prev>>

----------------------------------------------------------------------------
(* Bounds of the model *)

MaxNodes == 2       \* TNode objects a client of the node API builds
MaxCells == 3       \* cells handed to bayesian_cluster
MaxAlpha == 2       \* alpha ranges over 1..MaxAlpha
MaxSample == 2      \* num_sample of cn_mat_poisson ranges over 1..MaxSample
MaxBin == 2         \* num_bin ranges over 1..MaxBin
MaxCn == 2          \* max_cn ranges over 0..MaxCn
MaxIdsLen == 3      \* length of the cluster id arrays that are coloured
MaxClusterId == 2   \* cluster ids range over -2..MaxClusterId

LLValues == {-2, -1}   \* outcomes of calculate_marginal_ll_simple

----------------------------------------------------------------------------
(* Python values *)

\* A number is a fraction n/d; floats that are not numbers carry their tag.
NoneV == [t |-> "None", n |-> 0, d |-> 1]
Num(n) == [t |-> "num", n |-> n, d |-> 1]
Rat(n, d) == [t |-> "num", n |-> n, d |-> d]
NegInf == [t |-> "-inf", n |-> 0, d |-> 1]
PosInf == [t |-> "inf", n |-> 0, d |-> 1]
NaN == [t |-> "nan", n |-> 0, d |-> 1]

NullRef == 0           \* the reference None
OK == "ok"             \* the call returned

Max2(a, b) == IF a >= b THEN a ELSE b

\* float addition and subtraction on whole numbers and the infinities
FAdd(a, b) ==
    IF a.t = "nan" \/ b.t = "nan" THEN NaN
    ELSE IF a.t = "num" /\ b.t = "num" THEN Num(a.n + b.n)
    ELSE IF a.t = "num" THEN b
    ELSE IF b.t = "num" THEN a
    ELSE IF a.t = b.t THEN a
    ELSE NaN

FNeg(a) ==
    IF a.t = "num" THEN Num(0 - a.n)
    ELSE IF a.t = "-inf" THEN PosInf
    ELSE IF a.t = "inf" THEN NegInf
    ELSE NaN

FSub(a, b) == FAdd(a, FNeg(b))

\* floor(log2(n/d)) for n, d >= 1
RECURSIVE Log2Up(_, _, _)
Log2Up(n, d, k) == IF 2 * d > n THEN k ELSE Log2Up(n, 2 * d, k + 1)
RECURSIVE Log2Down(_, _, _)
Log2Down(n, d, k) == IF n >= d THEN k ELSE Log2Down(2 * n, d, k - 1)
ILog(n, d) == IF n >= d THEN Log2Up(n, d, 0) ELSE Log2Down(n, d, 0)

\* np.log on a fraction, on the grid of whole base-2 logarithms:
\* log(0) is -inf and the log of a negative number is nan (numpy warns, it
\* does not raise).
np_log(x) ==
    IF x.t # "num" THEN (IF x.t = "inf" THEN PosInf ELSE NaN)
    ELSE IF x.n = 0 THEN NegInf
    ELSE IF x.n < 0 THEN NaN
    ELSE Num(ILog(x.n, x.d))

\* 1 - pi
OneMinus(x) == IF x.t = "num" THEN Rat(x.d - x.n, x.d) ELSE FNeg(x)

\* scipy.special.logsumexp of a two-element list, on the same grid: the
\* larger term, one more when the two are equal (log2 2 = 1).
logsumexp(a, b) ==
    IF a.t = "nan" \/ b.t = "nan" THEN NaN
    ELSE IF a.t = "inf" \/ b.t = "inf" THEN PosInf
    ELSE IF a.t = "-inf" THEN b
    ELSE IF b.t = "-inf" THEN a
    ELSE IF a.n = b.n THEN Num(a.n + 1)
    ELSE Num(Max2(a.n, b.n))

\* math.gamma on a whole number n >= 1: (n - 1)!
RECURSIVE Factorial(_)
Factorial(n) == IF n <= 1 THEN 1 ELSE n * Factorial(n - 1)
gamma(n) == Factorial(n - 1)

SeqToSet(s) == {s[i] : i \in 1..Len(s)}

----------------------------------------------------------------------------
(* jointcnmodels.calculate_marginal_ll_simple is not part of the sources:  *)
(* it returns one scalar for the rows of the measurement it is given. A    *)
(* measurement is represented by the table `mll` of those scalars, one per *)
(* set of rows.                                                            *)

calculate_marginal_ll_simple(mll, sample_inds) == Num(mll[SeqToSet(sample_inds)])

----------------------------------------------------------------------------
(* TNode *)

TNode(sample_inds, left_child, right_child, cluster_ind, pi, d) ==
    [sample_inds |-> sample_inds, left_child |-> left_child,
     right_child |-> right_child, cluster_ind |-> cluster_ind,
     pi |-> pi, d |-> d, ll |-> NoneV, tree_ll |-> NoneV, log_r |-> NoneV]

is_leaf(node) ==
    /\ node.left_child = NullRef
    /\ node.right_child = NullRef
    /\ Len(node.sample_inds) = 1

\* The outcome of a method on the arena: the arena after it, and "ok" or the
\* type of the exception it raised.
Outcome(ns, err) == [nodes |-> ns, err |-> err]

update_pi_d(ns, k, alpha) ==
    LET self == ns[k] IN
    IF is_leaf(self)
    THEN Outcome([ns EXCEPT ![k].pi = Num(1), ![k].d = Num(alpha)], OK)
    ELSE IF self.left_child = NullRef \/ self.right_child = NullRef
    THEN Outcome(ns, "AttributeError")
    ELSE
      LET left == ns[self.left_child]
          right == ns[self.right_child]
          n_k == Len(left.sample_inds) + Len(right.sample_inds)
      IN
      IF n_k = 0 THEN Outcome(ns, "ValueError")
      ELSE IF left.d.t = "None" \/ right.d.t = "None" THEN Outcome(ns, "TypeError")
      ELSE
        LET gnk == gamma(n_k)
            d == alpha * gnk + left.d.n * right.d.n
        IN
        IF d = 0
        THEN Outcome([ns EXCEPT ![k].d = Num(d)], "ZeroDivisionError")
        ELSE Outcome([ns EXCEPT ![k].d = Num(d), ![k].pi = Rat(alpha * gnk, d)], OK)

update_ll(ns, k, mll) ==
    LET self == ns[k] IN
    IF is_leaf(self)
    THEN Outcome([ns EXCEPT ![k].ll = Num(1)], OK)
    ELSE Outcome([ns EXCEPT ![k].ll =
                     calculate_marginal_ll_simple(mll, self.sample_inds)], OK)

\* The exception, if any, of evaluating
\*   np.log(self.pi) + self.ll
\*   np.log(1 - self.pi) + self.left_child.tree_ll + self.right_child.tree_ll
\* in this order, as update_tree_ll and update_log_r both do.
MixtureError(ns, self) ==
    IF self.pi.t = "None" \/ self.ll.t = "None" THEN "TypeError"
    ELSE IF self.left_child = NullRef THEN "AttributeError"
    ELSE IF ns[self.left_child].tree_ll.t = "None" THEN "TypeError"
    ELSE IF self.right_child = NullRef THEN "AttributeError"
    ELSE IF ns[self.right_child].tree_ll.t = "None" THEN "TypeError"
    ELSE OK

MixtureFirst(self) == FAdd(np_log(self.pi), self.ll)

MixtureSecond(ns, self) ==
    FAdd(FAdd(np_log(OneMinus(self.pi)), ns[self.left_child].tree_ll),
         ns[self.right_child].tree_ll)

update_tree_ll(ns, k, mll) ==
    LET self == ns[k] IN
    IF Len(self.sample_inds) = 1
    THEN Outcome([ns EXCEPT ![k].tree_ll =
                     calculate_marginal_ll_simple(mll, self.sample_inds)], OK)
    ELSE IF MixtureError(ns, self) # OK THEN Outcome(ns, MixtureError(ns, self))
    ELSE Outcome([ns EXCEPT ![k].tree_ll =
                     logsumexp(MixtureFirst(self), MixtureSecond(ns, self))], OK)

update_log_r(ns, k) ==
    LET self == ns[k] IN
    IF MixtureError(ns, self) # OK THEN Outcome(ns, MixtureError(ns, self))
    ELSE
      LET top == MixtureFirst(self)
          bottom == logsumexp(MixtureFirst(self), MixtureSecond(ns, self))
      IN Outcome([ns EXCEPT ![k].log_r = FSub(top, bottom)], OK)

\* update_vars: the four updates in order; the first exception ends the call.
\* Each step below takes the outcome of the one before it.
ThenLogR(out, k) ==
    IF out.err # OK THEN out ELSE update_log_r(out.nodes, k)

ThenTreeLl(out, k, mll) ==
    IF out.err # OK THEN out ELSE ThenLogR(update_tree_ll(out.nodes, k, mll), k)

ThenLl(out, k, mll) ==
    IF out.err # OK THEN out ELSE ThenTreeLl(update_ll(out.nodes, k, mll), k, mll)

update_vars(ns, k, mll, alpha) == ThenLl(update_pi_d(ns, k, alpha), k, mll)

\* get_leaves: the list of leaf references below node k. A node with both
\* children appends the lists of its two subtrees, each started afresh; a node
\* with one child hands its accumulator down.
RECURSIVE get_leaves(_, _, _)
get_leaves(ns, k, leaves) ==
    LET self == ns[k] IN
    IF self.left_child = NullRef /\ self.right_child = NullRef
    THEN Append(leaves, k)
    ELSE IF self.right_child = NullRef
    THEN get_leaves(ns, self.left_child, leaves)
    ELSE IF self.left_child = NullRef
    THEN get_leaves(ns, self.right_child, leaves)
    ELSE (leaves \o get_leaves(ns, self.left_child, <<>>))
             \o get_leaves(ns, self.right_child, <<>>)

----------------------------------------------------------------------------
(* bayesian_cluster *)

\* A measurement is a sequence of rows (one per cell), each a sequence of
\* bin values. Cell i of the source (0-based) is row i + 1.
SqDist(u, v) ==
    LET RECURSIVE Sum(_)
        Sum(b) == IF b = 0 THEN 0
                  ELSE (u[b] - v[b]) * (u[b] - v[b]) + Sum(b - 1)
    IN Sum(Len(u))

\* pdist(no_nan_meas[sample_inds, :]).min(): the smallest Euclidean distance
\* between two of the rows, kept as the number under the square root.
naive_dist(meas, sample_inds) ==
    LET sq == {SqDist(meas[sample_inds[a] + 1], meas[sample_inds[b] + 1]) :
                 <<a, b>> \in {p \in (1..Len(sample_inds)) \X (1..Len(sample_inds)) :
                                 p[1] < p[2]}}
    IN [sqrt_of |-> CHOOSE m \in sq : \A x \in sq : m <= x]

\* itertools.combinations(range(n), 2) in the order it yields them, as
\* positions 1..n of the list `clusters`.
RECURSIVE combinations(_, _, _)
combinations(n, i, j) ==
    IF i >= n THEN <<>>
    ELSE IF j > n THEN combinations(n, i + 1, i + 2)
    ELSE <<(<<i, j>>)>> \o combinations(n, i, j + 1)

\* Is float a greater than float b (neither nan)?
FGreater(a, b) ==
    IF a.t = "num" /\ b.t = "num" THEN a.n > b.n
    ELSE IF a.t = b.t THEN FALSE
    ELSE a.t = "inf" \/ b.t = "-inf"

\* np.nanargmax over the filled cells of r, which the pairs list in row-major
\* order: the first position holding the largest value that is not nan; 0
\* when every cell is nan (numpy raises ValueError).
RECURSIVE nanargmax(_, _, _)
nanargmax(r, p, best) ==
    IF p > Len(r) THEN best
    ELSE IF r[p].t = "nan" THEN nanargmax(r, p + 1, best)
    ELSE IF best = 0 THEN nanargmax(r, p + 1, p)
    ELSE IF FGreater(r[p], r[best]) THEN nanargmax(r, p + 1, p)
    ELSE nanargmax(r, p + 1, best)

\* The for loop over the pairs of one while iteration (lines 229-247): the
\* candidate of each pair is built and updated, or taken from cluster_map.
\* st carries nodes, cluster_map, next_level (one candidate per pair) and err.
RECURSIVE ScorePairs(_, _, _, _, _, _)

\* The pair's candidate was not in cluster_map: node k was built, and `out`
\* is the outcome of its update_vars.
ScoreBuilt(pairs, p, clusters, st, mll, alpha, merge_inds, k, out) ==
    IF out.err # OK
    THEN [st EXCEPT !.nodes = out.nodes, !.err = out.err]
    ELSE ScorePairs(pairs, p + 1, clusters,
                    [nodes |-> out.nodes,
                     cluster_map |-> (merge_inds :> k) @@ st.cluster_map,
                     next_level |-> Append(st.next_level, k),
                     err |-> OK],
                    mll, alpha)

ScorePair(pairs, p, clusters, st, mll, alpha, left_clst, right_clst, merge_inds) ==
    IF merge_inds \notin DOMAIN st.cluster_map
    THEN ScoreBuilt(pairs, p, clusters, st, mll, alpha, merge_inds,
                    Len(st.nodes) + 1,
                    update_vars(Append(st.nodes,
                                       TNode(merge_inds, left_clst, right_clst, -1,
                                             NoneV, NoneV)),
                                Len(st.nodes) + 1, mll, alpha))
    ELSE ScorePairs(pairs, p + 1, clusters,
                    [st EXCEPT !.next_level =
                         Append(st.next_level, st.cluster_map[merge_inds])],
                    mll, alpha)

ScorePairs(pairs, p, clusters, st, mll, alpha) ==
    IF p > Len(pairs) THEN st
    ELSE ScorePair(pairs, p, clusters, st, mll, alpha,
                   clusters[pairs[p][1]], clusters[pairs[p][2]],
                   st.nodes[clusters[pairs[p][1]]].sample_inds
                     \o st.nodes[clusters[pairs[p][2]]].sample_inds)

EmptyRow == [i |-> NaN, j |-> NaN, r_merge |-> NaN, naive_dist |-> NaN,
             log_like |-> NaN, i_count |-> NaN, j_count |-> NaN]

\* del clusters[j_max]
DelAt(clusters, j_max) ==
    SubSeq(clusters, 1, j_max - 1) \o SubSeq(clusters, j_max + 1, Len(clusters))

\* dict.pop(key)
Pop(cluster_map, key) ==
    [m \in (DOMAIN cluster_map) \ {key} |-> cluster_map[m]]

\* Lines 258-273: node sel, the candidate of positions (i_max, j_max), has been
\* selected with score r_max; ns1 is the arena with its cluster_ind assigned.
Link(st, cluster_map, ns1, sel, i_max, j_max, r_max, meas) ==
    [nodes |-> ns1,
     clusters |-> DelAt([st.clusters EXCEPT ![i_max] = sel], j_max),
     cluster_map |-> Pop(cluster_map, ns1[sel].sample_inds),
     linkage |->
       [st.linkage EXCEPT ![st.li + 1] =
          [i |-> Num(ns1[ns1[sel].left_child].cluster_ind),
           j |-> Num(ns1[ns1[sel].right_child].cluster_ind),
           r_merge |-> r_max,
           naive_dist |-> naive_dist(meas, ns1[sel].sample_inds),
           log_like |-> ns1[sel].ll,
           i_count |-> Num(Len(ns1[st.clusters[i_max]].sample_inds)),
           j_count |-> Num(Len(ns1[st.clusters[j_max]].sample_inds))]],
     li |-> st.li + 1,
     err |-> OK]

\* Lines 249-251: r holds the log_r of every pair's candidate and
\* max_r_flat_ind is where np.nanargmax found its maximum.
Select(st, pairs, scored, r, max_r_flat_ind, meas, n_cells) ==
    IF max_r_flat_ind = 0
    THEN [st EXCEPT !.nodes = scored.nodes, !.cluster_map = scored.cluster_map,
                    !.err = "ValueError"]
    ELSE Link(st, scored.cluster_map,
              [scored.nodes EXCEPT ![scored.next_level[max_r_flat_ind]].cluster_ind =
                   n_cells + st.li],
              scored.next_level[max_r_flat_ind],
              pairs[max_r_flat_ind][1], pairs[max_r_flat_ind][2],
              r[max_r_flat_ind], meas)

\* The scores r[i, j] of the candidates, in the order of the pairs.
LogRs(scored) ==
    [p \in 1..Len(scored.next_level) |-> scored.nodes[scored.next_level[p]].log_r]

Scored(st, pairs, scored, meas, n_cells) ==
    IF scored.err # OK
    THEN [st EXCEPT !.nodes = scored.nodes, !.err = scored.err]
    ELSE Select(st, pairs, scored, LogRs(scored), nanargmax(LogRs(scored), 1, 0),
                meas, n_cells)

\* One iteration of the while loop (lines 220-273). st carries nodes, clusters,
\* cluster_map, linkage, li and err.
MergeStep(st, meas, mll, alpha, n_cells) ==
    Scored(st, combinations(Len(st.clusters), 1, 2),
           ScorePairs(combinations(Len(st.clusters), 1, 2), 1, st.clusters,
                      [nodes |-> st.nodes, cluster_map |-> st.cluster_map,
                       next_level |-> <<>>, err |-> OK],
                      mll, alpha),
           meas, n_cells)

RECURSIVE MergeLoop(_, _, _, _, _)
MergeLoop(st, meas, mll, alpha, n_cells) ==
    IF st.err # OK \/ Len(st.clusters) <= 1 THEN st
    ELSE MergeLoop(MergeStep(st, meas, mll, alpha, n_cells), meas, mll, alpha, n_cells)

\* The list comprehension of lines 208-209: update_vars on every leaf in turn.
RECURSIVE UpdateLeaves(_, _, _, _, _)
LeafUpdated(out, k, n_cells, mll, alpha) ==
    IF out.err # OK THEN out
    ELSE UpdateLeaves(out.nodes, k + 1, n_cells, mll, alpha)

UpdateLeaves(ns, k, n_cells, mll, alpha) ==
    IF k > n_cells THEN Outcome(ns, OK)
    ELSE LeafUpdated(update_vars(ns, k, mll, alpha), k, n_cells, mll, alpha)

\* linkage["merge_count"] = linkage["i_count"] + linkage["j_count"]
WithMergeCount(linkage) ==
    [k \in 1..Len(linkage) |->
        [i |-> linkage[k].i, j |-> linkage[k].j, r_merge |-> linkage[k].r_merge,
         naive_dist |-> linkage[k].naive_dist, log_like |-> linkage[k].log_like,
         i_count |-> linkage[k].i_count, j_count |-> linkage[k].j_count,
         merge_count |-> FAdd(linkage[k].i_count, linkage[k].j_count)]]

\* What a call ends with: err is "ok" or the exception; value is what was
\* returned (<<>> when it raised); nodes is the arena it leaves.
Ended(err, value, ns) == [err |-> err, value |-> value, nodes |-> ns]

\* Lines 275-276: the loop has ended in state `done`. The 6-tuple returned
\* names the reshaped tables it passes through; it does not build them.
Return(done, meas) ==
    IF done.err # OK THEN Ended(done.err, <<>>, done.nodes)
    ELSE IF Len(done.clusters) = 0 THEN Ended("IndexError", <<>>, done.nodes)
    ELSE Ended(OK,
               <<WithMergeCount(done.linkage), done.clusters[1],
                 [i \in 1..Len(meas) |-> i - 1], "matrix_data", meas, "variances">>,
               done.nodes)

\* Lines 204-206: one leaf per cell, cell i at position i + 1 of the arena.
RECURSIVE LeafNodes(_, _)
LeafNodes(n_cells, alpha) ==
    IF n_cells = 0 THEN <<>>
    ELSE Append(LeafNodes(n_cells - 1, alpha),
                TNode(<<n_cells - 1>>, NullRef, NullRef, n_cells - 1,
                      Num(0), Num(alpha)))

\* The list `clusters` of lines 204-206, as references into the arena.
RECURSIVE LeafRefs(_)
LeafRefs(n_cells) ==
    IF n_cells = 0 THEN <<>> ELSE Append(LeafRefs(n_cells - 1), n_cells)

\* Lines 215-216: the linkage table of n rows, every entry NaN.
RECURSIVE EmptyLinkage(_)
EmptyLinkage(n) ==
    IF n <= 0 THEN <<>> ELSE Append(EmptyLinkage(n - 1), EmptyRow)

\* Lines 215-273: the leaves have been updated with outcome `leaves`.
Cluster(leaves, meas, mll, alpha) ==
    IF leaves.err # OK THEN Ended(leaves.err, <<>>, leaves.nodes)
    ELSE Return(MergeLoop([nodes |-> leaves.nodes,
                           clusters |-> LeafRefs(Len(meas)),
                           cluster_map |-> <<>>,
                           linkage |-> EmptyLinkage(Len(meas) - 1),
                           li |-> 0,
                           err |-> OK],
                          meas, mll, alpha, Len(meas)),
                meas)

\* bayesian_cluster on a measurement of n_cells rows.
bayesian_cluster(meas, mll, alpha) ==
    Cluster(UpdateLeaves(LeafNodes(Len(meas), alpha), 1, Len(meas), mll, alpha),
            meas, mll, alpha)

----------------------------------------------------------------------------
(* numpy's global random generator *)

\* The generator is a state in 0..RngMod-1; every value drawn advances it by
\* one step and is read off the new state as a uniform number state/RngMod.
RngMod == 8
MaxSeed == 1        \* seeds range over None, 0..MaxSeed

RngStates == 0..(RngMod - 1)
RngStep(s) == (5 * s + 3) % RngMod

\* An optional argument: <<>> is None, <<v>> is the value v.
None == <<>>
Some(v) == <<v>>
SeedOpt == {None} \cup {Some(s) : s \in 0..MaxSeed}

\* np.random.seed(seed)
np_random_seed(seed) == seed % RngMod

\* The generator after k draws from state s.
RECURSIVE RngAfter(_, _)
RngAfter(s, k) == IF k = 0 THEN s ELSE RngAfter(RngStep(s), k - 1)

\* A Poisson variate read off the uniform number u/RngMod by inversion; the
\* thresholds are the distribution function of Poisson(1) in thousandths.
\* Poisson(0) is 0.
PoissonOf(lam, u) ==
    IF lam = 0 THEN 0
    ELSE LET q == (u * 1000) \div RngMod IN
         IF q < 368 THEN 0
         ELSE IF q < 736 THEN 1
         ELSE IF q < 920 THEN 2
         ELSE IF q < 981 THEN 3
         ELSE 4

\* np.random.poisson(lam, size) from state s: the values drawn.
np_random_poisson(s, lam, size) ==
    [i \in 1..size |-> PoissonOf(lam, RngAfter(s, i))]

\* np.random.binomial(n=1, p=0.5, size) from state s.
np_random_binomial(s, size) ==
    [i \in 1..size |-> IF 2 * RngAfter(s, i) >= RngMod THEN 1 ELSE 0]

Min2(a, b) == IF a <= b THEN a ELSE b

----------------------------------------------------------------------------
(* simulation.py *)

\* A generator that is left as it is, whatever the seed.
NotReseeded(seed, s) == s

\* The state the generator is in when a draw phase of cn_mat_poisson starts.
Reseeded(seed, s) == IF seed # None THEN np_random_seed(seed[1]) ELSE s

\* cn_mat_poisson from generator state s: the matrix (a sequence of num_sample
\* rows of num_bin values) and the generator state it leaves.
cn_mat_poisson(s, num_sample, num_bin, init_lambda, jump_lambda, seed, max_cn) ==
    LET s1 == Reseeded(seed, s)
        first == np_random_poisson(s1, init_lambda, num_sample)
        num_jump == (num_bin - 1) * num_sample
        s2 == Reseeded(seed, RngAfter(s1, num_sample))
        all_jumps == np_random_poisson(s2, jump_lambda, num_jump)
        s3 == Reseeded(seed, RngAfter(s2, num_jump))
        drawn == np_random_binomial(s3, num_jump)
        signs == [i \in 1..num_jump |-> IF drawn[i] = 0 THEN -1 ELSE 1]
        RECURSIVE Cell(_, _)
        Cell(r, c) ==
            IF c = 1 THEN first[r]
            ELSE LET i == (r - 1) * (num_bin - 1) + (c - 1) IN
                 Min2(Max2(Cell(r, c - 1) + signs[i] * all_jumps[i], 0), max_cn)
    IN [cn_mat |-> [r \in 1..num_sample |-> [c \in 1..num_bin |-> Cell(r, c)]],
        rng |-> RngAfter(s3, num_jump)]

\* Series.value_counts(): how often each value that occurs, occurs.
value_counts(series) ==
    [v \in {series[k] : k \in 1..Len(series)} |->
        Cardinality({k \in 1..Len(series) : series[k] = v})]

\* The share of the rows whose labels agree, and nothing else.
prop_matching(exp_cl, obs_cl) ==
    Rat(Cardinality({k \in 1..Len(exp_cl) : exp_cl[k] = obs_cl[k]}), Len(exp_cl))

\* get_prop_correct on the columns exp_cl and obs_cl of the clustering table:
\* the counts of True and of False among exp_cl == obs_cl, as far as they
\* occur, each divided by the number of rows, and the largest of these. (Of a
\* table without rows max() has nothing to choose from and raises; no caller
\* hands one in.)
get_prop_correct(exp_cl, obs_cl) ==
    LET eq == [k \in 1..Len(exp_cl) |-> exp_cl[k] = obs_cl[k]]
        shares == {Rat(value_counts(eq)[v], Len(exp_cl)) : v \in DOMAIN value_counts(eq)}
    IN CHOOSE x \in shares : \A y \in shares : x.n >= y.n

\* get_plot_data: dist = -r_merge, and the matrix of i, j, dist, merge_count.
get_plot_data(plinkage) ==
    [k \in 1..Len(plinkage) |->
        <<plinkage[k].i, plinkage[k].j, FNeg(plinkage[k].r_merge),
          plinkage[k].merge_count>>]

\* The tuple assignment of line 79 binds this many names ...
UnpackTargets == 3

\* Lines 83-113: bayesian_cluster returned normally and its value was bound to
\* tlinkage, root and cl_cell_ids. ns is the arena; root refers to the root.
Score(ns, cn_mat, tlinkage, root, samples_per_cluster, df, s) ==
    LET n == Len(cn_mat)
        exp_cl == [k \in 1..n |-> IF k <= samples_per_cluster THEN "1" ELSE "2"]
        left_leaves == get_leaves(ns, ns[root].left_child, <<>>)
        right_leaves == get_leaves(ns, ns[root].right_child, <<>>)
        left_samples == {ns[left_leaves[x]].sample_inds[1] :
                           x \in 1..Len(left_leaves)}
        right_samples == {ns[right_leaves[x]].sample_inds[1] :
                            x \in 1..Len(right_leaves)}
        obs_cl == [k \in 1..n |-> IF (k - 1) \in left_samples THEN "1"
                                  ELSE IF (k - 1) \in right_samples THEN "2"
                                  ELSE "None"]
        results == <<cn_mat, tlinkage, get_plot_data(tlinkage),
                     [exp_cl |-> exp_cl, obs_cl |-> obs_cl],
                     get_prop_correct(exp_cl, obs_cl)>>
    IN [err |-> OK,
        value |-> IF df # None THEN <<[row |-> df[1], written |-> results]>>
                  ELSE results,
        nodes |-> ns, rng |-> s]

\* Lines 79-81: bayesian_cluster ended as `bc`; an exception goes on to the
\* caller, and a tuple of another length than the names it is bound to raises
\* ValueError.
Unpack(bc, cn_mat, samples_per_cluster, df, s) ==
    IF bc.err # OK
    THEN [err |-> bc.err, value |-> <<>>, nodes |-> bc.nodes, rng |-> s]
    ELSE IF Len(bc.value) # UnpackTargets
    THEN [err |-> "ValueError", value |-> <<>>, nodes |-> bc.nodes, rng |-> s]
    ELSE Score(bc.nodes, cn_mat, bc.value[1], bc.value[2], samples_per_cluster, df, s)

\* Lines 64-81: the two clusters have been drawn as c1 and c2. The noise
\* column draws one normal variate per row of cn_data.
Noise(c1, c2, samples_per_cluster, num_bin, alpha, df, noise_seed, mll) ==
    Unpack(bayesian_cluster(c1.cn_mat \o c2.cn_mat, mll, alpha),
           c1.cn_mat \o c2.cn_mat, samples_per_cluster, df,
           RngAfter(Reseeded(noise_seed, c2.rng),
                    2 * samples_per_cluster * num_bin))

SecondCluster(c1, samples_per_cluster, num_bin, max_cn, alpha, df, init_lambdas, jump_lambdas, seeds, noise_seed, mll) ==
    Noise(c1,
          cn_mat_poisson(c1.rng, samples_per_cluster, num_bin, init_lambdas[2],
                         jump_lambdas[2], seeds[2], max_cn),
          samples_per_cluster, num_bin, alpha, df, noise_seed, mll)

\* poisson_bicluster from generator state s. df is None or the accumulator
\* row; mll stands for the measurement the copy-number table reshapes to.
poisson_bicluster(s, samples_per_cluster, num_bin, max_cn, alpha, df, init_lambdas, jump_lambdas, seeds, noise_seed, mll) ==
    SecondCluster(cn_mat_poisson(s, samples_per_cluster, num_bin, init_lambdas[1],
                                 jump_lambdas[1], seeds[1], max_cn),
                  samples_per_cluster, num_bin, max_cn, alpha, df,
                  init_lambdas, jump_lambdas, seeds, noise_seed, mll)

\* expand_grid(params): one row per combination of the candidate values, the
\* last parameter varying fastest. cols are the candidate lists in the order
\* samples_per_cluster, num_bin, max_cn, alpha, init_lambdas, jump_lambdas.
RECURSIVE GridSize(_, _)
GridSize(cols, c) == IF c > Len(cols) THEN 1 ELSE Len(cols[c]) * GridSize(cols, c + 1)

GridValue(cols, c, k) == cols[c][((k \div GridSize(cols, c + 1)) % Len(cols[c])) + 1]

expand_grid(cols) ==
    [k \in 1..GridSize(cols, 1) |->
        [index |-> k - 1,
         samples_per_cluster |-> GridValue(cols, 1, k - 1),
         num_bin |-> GridValue(cols, 2, k - 1),
         max_cn |-> GridValue(cols, 3, k - 1),
         alpha |-> GridValue(cols, 4, k - 1),
         init_lambdas |-> GridValue(cols, 5, k - 1),
         jump_lambdas |-> GridValue(cols, 6, k - 1)]]

\* pd.concat([sim_df] * trials_per_set): the rows, each keeping its index.
RECURSIVE Replicated(_, _)
Replicated(sim_df, trials_per_set) ==
    IF trials_per_set = 0 THEN <<>>
    ELSE sim_df \o Replicated(sim_df, trials_per_set - 1)

\* apply_fn on one row, from generator state s.
apply_fn(s, df, mll) ==
    poisson_bicluster(s, df.samples_per_cluster, df.num_bin, df.max_cn, df.alpha, Some(df), df.init_lambdas, df.jump_lambdas, <<None, None>>, None, mll)

\* df.apply(apply_fn, axis=1) from row k on: the rows in order, each trial
\* starting from the generator state the one before left; the first
\* exception ends it. st carries the rows run, the rows returned, the
\* generator, the arena of the last trial and err.
RECURSIVE ApplyRows(_, _, _, _)
Applied(st, sim_df, k, mll, trial) ==
    IF trial.err # OK
    THEN [st EXCEPT !.ran = Append(st.ran, k), !.rng = trial.rng,
                    !.nodes = trial.nodes, !.err = trial.err]
    ELSE ApplyRows([st EXCEPT !.ran = Append(st.ran, k),
                              !.rows = Append(st.rows, trial.value[1]),
                              !.rng = trial.rng, !.nodes = trial.nodes],
                   sim_df, k + 1, mll)

ApplyRows(st, sim_df, k, mll) ==
    IF k > Len(sim_df) THEN st
    ELSE Applied(st, sim_df, k, mll, apply_fn(st.rng, sim_df[k], mll))

StartApply(s) == [ran |-> <<>>, rows |-> <<>>, rng |-> s, nodes |-> <<>>, err |-> OK]

\* dd.from_pandas(sim_df, npartitions): dask's from_pandas sorts the rows by
\* index (its default, sort=True) and cuts them into at most npartitions
\* runs of ceil(n / npartitions) rows. Here: the positions of the rows of
\* sim_df in sorted order.
SortedByIndex(sim_df) ==
    LET n == Len(sim_df)
        Before(a, b) == \/ sim_df[a].index < sim_df[b].index
                        \/ (sim_df[a].index = sim_df[b].index /\ a < b)
    IN [k \in 1..n |->
          CHOOSE a \in 1..n : Cardinality({b \in 1..n : Before(b, a)}) = k - 1]

ChunkSize(n, npartitions) == (n + npartitions - 1) \div npartitions

\* The rows of partition w, as a frame of their own.
Partition(sim_df, npartitions, w) ==
    LET size == ChunkSize(Len(sim_df), npartitions)
        lo == (w - 1) * size + 1
        hi == Min2(w * size, Len(sim_df))
    IN [k \in 1..Max2(hi - lo + 1, 0) |-> sim_df[SortedByIndex(sim_df)[lo + k - 1]]]

\* result.compute(scheduler="processes"): every partition is applied in a
\* worker process of its own, worker w from generator state ws[w]. parts[w] is
\* how partition w ended. If none raised the rows are put together in the
\* order of the partitions; otherwise the exception of partition `first`, one
\* that raised, reaches the caller.
RECURSIVE Recombined(_, _)
Recombined(parts, w) ==
    IF w > Len(parts) THEN <<>> ELSE parts[w].rows \o Recombined(parts, w + 1)

Computed(parts, first) ==
    IF \A w \in 1..Len(parts) : parts[w].err = OK
    THEN [err |-> OK, value |-> Some(Recombined(parts, 1)), parts |-> parts]
    ELSE [err |-> parts[first].err, value |-> None, parts |-> parts]

\* many_poisson_bicluster from generator state s. The result carries, next to
\* err and the frame returned, the rows each process ran (parts; the serial
\* run is one part), the generator and the arena the caller is left with.
Serial(s, sim_df, mll, done) ==
    [err |-> done.err,
     value |-> IF done.err = OK THEN Some(done.rows) ELSE None,
     parts |-> <<done>>, rng |-> done.rng, nodes |-> done.nodes]

many_poisson_bicluster(s, trials_per_set, cols, num_cores, mll, ws, first) ==
    IF num_cores = None
    THEN Serial(s, Replicated(expand_grid(cols), trials_per_set), mll,
                ApplyRows(StartApply(s), Replicated(expand_grid(cols), trials_per_set),
                          1, mll))
    ELSE Computed([w \in 1..num_cores[1] |->
                     ApplyRows(StartApply(ws[w]),
                               Partition(Replicated(expand_grid(cols), trials_per_set),
                                         num_cores[1], w),
                               1, mll)],
                  first)

----------------------------------------------------------------------------
(* get_cluster_color_map *)

Gray == [pal |-> "(0.75, 0.75, 0.75, 1.0)", idx |-> 0]

\* get_cluster_palette: the name of the palette and how many colours it has.
get_cluster_palette(n_col) ==
    IF n_col <= 10 THEN [name |-> "tab10", N |-> 10]
    ELSE [name |-> "listed21", N |-> 21]

\* pal(idx / den): a colormap called with a float in [0, 1] takes the colour
\* at floor(x * N), and the last colour at x = 1.
PalColor(pal, idx, den) ==
    [pal |-> pal.name, idx |-> Min2((idx * pal.N) \div den, pal.N - 1)]

\* np.sort(np.unique(ids)): the distinct ids in increasing order.
RECURSIVE SortedSeq(_)
SortedSeq(S) ==
    IF S = {} THEN <<>>
    ELSE LET lo == CHOOSE x \in S : \A y \in S : x <= y
         IN <<lo>> \o SortedSeq(S \ {lo})

\* The loop of lines 81-86 from position p of the sorted ids; idx counts the
\* non-negative ids coloured so far. Dividing by num_colors - 1 = 0 raises.
RECURSIVE ColorLoop(_, _, _, _, _, _)
ColorLoop(ids, p, idx, num_colors, pal, color_map) ==
    IF p > Len(ids) THEN [err |-> OK, value |-> color_map]
    ELSE IF ids[p] < 0
    THEN ColorLoop(ids, p + 1, idx, num_colors, pal, (ids[p] :> Gray) @@ color_map)
    ELSE IF num_colors - 1 = 0
    THEN [err |-> "ZeroDivisionError", value |-> <<>>]
    ELSE ColorLoop(ids, p + 1, idx + 1, num_colors, pal,
                   (ids[p] :> PalColor(pal, idx, num_colors - 1)) @@ color_map)

get_cluster_color_map(cluster_ids) ==
    LET num_colors == Cardinality({x \in SeqToSet(cluster_ids) : x >= 0})
        pal == get_cluster_palette(num_colors)
    IN ColorLoop(SortedSeq(SeqToSet(cluster_ids)), 1, 0, num_colors, pal, <<>>)

----------------------------------------------------------------------------
(* The state machine: the top-level calls a client makes. `call` records the *)
(* operation, its arguments and how it ended.                                *)

NoCall == [op |-> "none"]

Lambdas == {0, 1}                 \* init_lambda and jump_lambda
MeasRows == {<<0>>, <<1>>}        \* rows of a measurement handed in directly
SampleSeqs == {<<0>>, <<0, 1>>}   \* sample_inds of a node built by hand

Measurements(n) == [1..n -> MeasRows]
MllTables(U) == [(SUBSET U) \ {{}} -> LLValues]
\* the measurement whose every set of rows has marginal likelihood v
MllConst(v) == [S \in SUBSET {0, 1} |-> v]

\* No object built and no call made yet; the generator is in any state.
Init ==
    /\ nodes = <<>>
    /\ rng \in RngStates
    /\ call = NoCall
    /\ prev = NoCall

\* The same, for the operations that never touch the generator.
InitNoRng ==
    /\ nodes = <<>>
    /\ rng = 0
    /\ call = NoCall
    /\ prev = NoCall

(* The clustering engine and the simulation that drives it *)

BayesianCluster ==
    /\ call = NoCall
    /\ \E n \in 1..MaxCells :
         \E meas \in Measurements(n), mll \in MllTables(0..(n - 1)),
            alpha \in 1..MaxAlpha :
           LET res == bayesian_cluster(meas, mll, alpha) IN
           /\ call' = [op |-> "bayesian_cluster",
                       args |-> [meas |-> meas, mll |-> mll, alpha |-> alpha],
                       err |-> res.err, value |-> res.value]
           /\ nodes' = res.nodes
    /\ UNCHANGED <<rng, prev>>

PoissonBicluster ==
    /\ call = NoCall
    /\ \E samples_per_cluster \in {k \in 1..MaxCells : 2 * k <= MaxCells},
          num_bin \in 1..MaxBin, max_cn \in 0..MaxCn, alpha \in 1..MaxAlpha,
          df \in {None, Some("row")}, lams \in Lambdas \X Lambdas,
          seeds \in SeedOpt \X SeedOpt, noise_seed \in SeedOpt :
         \E mll \in MllTables(0..(2 * samples_per_cluster - 1)) :
           LET res == poisson_bicluster(rng, samples_per_cluster, num_bin, max_cn,
                                        alpha, df, lams, lams, seeds, noise_seed, mll)
           IN
           /\ call' = [op |-> "poisson_bicluster",
                       args |-> [samples_per_cluster |-> samples_per_cluster,
                                 num_bin |-> num_bin, max_cn |-> max_cn,
                                 alpha |-> alpha, df |-> df, lams |-> lams,
                                 seeds |-> seeds, noise_seed |-> noise_seed,
                                 mll |-> mll],
                       err |-> res.err, value |-> res.value]
           /\ nodes' = res.nodes
           /\ rng' = res.rng
    /\ UNCHANGED prev

Next == BayesianCluster \/ PoissonBicluster

Spec == Init /\ [][Next]_vars

(* The node API used directly *)

NewNode ==
    /\ Len(nodes) < MaxNodes
    /\ \E sample_inds \in SampleSeqs, left \in 0..Len(nodes), right \in 0..Len(nodes),
          cluster_ind \in {Len(nodes)},
          given \in {<<NoneV, NoneV>>, <<Num(0), Num(1)>>} :
         /\ nodes' = Append(nodes, TNode(sample_inds, left, right, cluster_ind,
                                         given[1], given[2]))
         /\ call' = [op |-> "TNode", self |-> Len(nodes) + 1, alpha |-> 0,
                     err |-> OK, value |-> <<>>]
    /\ UNCHANGED <<rng, prev>>

\* A method of node k ended with outcome `out`.
MethodCall(op, k, alpha, out) ==
    /\ nodes' = out.nodes
    /\ call' = [op |-> op, self |-> k, alpha |-> alpha,
                err |-> out.err, value |-> <<>>]
    /\ UNCHANGED <<rng, prev>>

UpdateVars ==
    \E k \in 1..Len(nodes), v \in LLValues, alpha \in 1..MaxAlpha :
        MethodCall("update_vars", k, alpha, update_vars(nodes, k, MllConst(v), alpha))

UpdatePiD ==
    \E k \in 1..Len(nodes), alpha \in 1..MaxAlpha :
        MethodCall("update_pi_d", k, alpha, update_pi_d(nodes, k, alpha))

UpdateLl ==
    \E k \in 1..Len(nodes), v \in LLValues :
        MethodCall("update_ll", k, 0, update_ll(nodes, k, MllConst(v)))

UpdateTreeLl ==
    \E k \in 1..Len(nodes), v \in LLValues :
        MethodCall("update_tree_ll", k, 0, update_tree_ll(nodes, k, MllConst(v)))

UpdateLogR ==
    \E k \in 1..Len(nodes) :
        MethodCall("update_log_r", k, 0, update_log_r(nodes, k))

GetLeaves ==
    \E k \in 1..Len(nodes) :
        /\ call' = [op |-> "get_leaves", self |-> k, alpha |-> 0,
                    err |-> OK, value |-> get_leaves(nodes, k, <<>>)]
        /\ UNCHANGED <<nodes, rng, prev>>

NextNode ==
    \/ NewNode \/ UpdateVars \/ UpdatePiD \/ UpdateLl \/ UpdateTreeLl
    \/ UpdateLogR \/ GetLeaves

SpecNode == InitNoRng /\ [][NextNode]_vars

(* The simulation called twice with the same arguments *)

CnMatPoissonCall(args, s) ==
    LET res == cn_mat_poisson(s, args.num_sample, args.num_bin, args.init_lambda,
                              args.jump_lambda, args.seed, args.max_cn)
    IN [op |-> "cn_mat_poisson", args |-> args, rng_before |-> s,
        err |-> OK, value |-> res.cn_mat, rng_after |-> res.rng]

CnMatPoisson ==
    /\ call = NoCall
    /\ \E num_sample \in 1..MaxSample, num_bin \in 1..MaxBin,
          init_lambda \in Lambdas, jump_lambda \in Lambdas,
          seed \in SeedOpt, max_cn \in 0..MaxCn :
         LET c == CnMatPoissonCall([num_sample |-> num_sample, num_bin |-> num_bin,
                                    init_lambda |-> init_lambda,
                                    jump_lambda |-> jump_lambda,
                                    seed |-> seed, max_cn |-> max_cn], rng)
         IN /\ call' = c
            /\ rng' = c.rng_after
    /\ UNCHANGED <<nodes, prev>>

\* The same call again, with the arguments of the last one.
CnMatPoissonAgain ==
    /\ call # NoCall
    /\ prev = NoCall
    /\ LET c == CnMatPoissonCall(call.args, rng)
       IN /\ call' = c
          /\ prev' = call
          /\ rng' = c.rng_after
    /\ UNCHANGED nodes

\* Any other code that draws from the global generator (the noise column of
\* poisson_bicluster, line 74) moves it on.
OtherDraw ==
    /\ rng' = RngStep(rng)
    /\ UNCHANGED <<nodes, call, prev>>

NextSim == CnMatPoisson \/ CnMatPoissonAgain \/ OtherDraw

SpecSim == Init /\ [][NextSim]_vars

(* The colour map *)

ClusterIdArrays ==
    UNION {[1..n -> (-2)..MaxClusterId] : n \in 0..MaxIdsLen}

GetClusterColorMap ==
    /\ call = NoCall
    /\ \E cluster_ids \in ClusterIdArrays :
         LET res == get_cluster_color_map(cluster_ids) IN
         call' = [op |-> "get_cluster_color_map", args |-> cluster_ids,
                  err |-> res.err, value |-> res.value]
    /\ UNCHANGED <<nodes, rng, prev>>

NextColor == GetClusterColorMap

SpecColor == InitNoRng /\ [][NextColor]_vars

----------------------------------------------------------------------------
(* db/qc.py: the QC cache *)

MaxResults == 2      \* results records under one ticket

NoSuffix == "<None>"                \* the suffix None
Metadata == <<NoSuffix, "metadata.yaml">>
WholeDataset == <<<<NoSuffix, NoSuffix>>>>

ResultsTypes ==
    {"alignment", "hmmcopy", "annotation", "cell_state_prediction", "other"}
ResultsVersions == {"v1", "v0"}
FileCounts == {0, 1, 2}             \* how many files a transfer returns

\* The loaders' table_suffixes: per stage, from a results version to the
\* (table name, suffix) pairs of that stage. Version v0 is in none of them.
table_suffixes ==
    [alignment |-> [v1 |-> <<<<"align_metrics", "_alignment_metrics.csv.gz">>>>],
     hmmcopy |-> [v1 |-> <<<<"hmmcopy_reads", "_reads.csv.gz">>>>],
     annotation |-> [v1 |-> <<<<"annotation_metrics", "_metrics.csv.gz">>>>]]

\* table_suffixes[results_version] + ((None, 'metadata.yaml'),)
StageSuffixes(stage, results_version) ==
    IF results_version \in DOMAIN table_suffixes[stage]
    THEN [kind |-> "fetch",
          suffixes |-> Append(table_suffixes[stage][results_version], Metadata)]
    ELSE [kind |-> "KeyError", suffixes |-> <<>>]

\* A record of no known stage fetched whole, as under full_dataset.
FetchedWhole(results) == [kind |-> "fetch", suffixes |-> WholeDataset]

\* Lines 40-41: a record of no known stage is passed over.
Skipped(results) == [kind |-> "continue", suffixes |-> <<>>]

\* Lines 24-41: the suffixes to fetch for one results record.
csv_suffixes(results, full_dataset) ==
    IF full_dataset THEN [kind |-> "fetch", suffixes |-> WholeDataset]
    ELSE IF results.results_type \in {"alignment", "hmmcopy", "annotation"}
    THEN StageSuffixes(results.results_type, results.results_version)
    ELSE IF results.results_type = "cell_state_prediction"
    THEN [kind |-> "fetch", suffixes |-> WholeDataset]
    ELSE Skipped(results)

\* Line 53: n files came back for csv_suffix.
\* The same, were only the absence of a file noticed.
InconsistentIfNone(csv_suffix, n) == csv_suffix # NoSuffix /\ n = 0

Inconsistent(csv_suffix, n) == csv_suffix # NoSuffix /\ n # 1

\* Lines 43-54 for the record with id `id`, from position p of its suffixes.
\* st carries the transfers issued so far, err and the id of the record at
\* which the call raised (0: it has not). files[k] is the number of files the
\* k-th call of cache_dataset returns.
RECURSIVE FetchSuffixes(_, _, _, _, _)
Fetched(st, id, suffixes, p, files, t) ==
    IF Inconsistent(suffixes[p][2], t.n)
    THEN [transfers |-> Append(st.transfers, t), err |-> "Exception", at |-> id]
    ELSE FetchSuffixes([st EXCEPT !.transfers = Append(st.transfers, t)],
                       id, suffixes, p + 1, files)

FetchSuffixes(st, id, suffixes, p, files) ==
    IF p > Len(suffixes) THEN st
    ELSE Fetched(st, id, suffixes, p, files,
                 [results_id |-> id, suffix_filter |-> suffixes[p][2],
                  n |-> files[Len(st.transfers) + 1]])

\* The loop of lines 21-54 from record r on.
RECURSIVE CacheLoop(_, _, _, _, _)
CacheRecord(st, ticket_results, r, full_dataset, files, sel) ==
    IF sel.kind = "KeyError" THEN [st EXCEPT !.err = "KeyError", !.at = r]
    ELSE IF sel.kind = "continue"
    THEN CacheLoop(st, ticket_results, r + 1, full_dataset, files)
    ELSE CacheLoop(FetchSuffixes(st, r, sel.suffixes, 1, files),
                   ticket_results, r + 1, full_dataset, files)

CacheLoop(st, ticket_results, r, full_dataset, files) ==
    IF st.err # OK \/ r > Len(ticket_results) THEN st
    ELSE CacheRecord(st, ticket_results, r, full_dataset, files,
                     csv_suffixes(ticket_results[r], full_dataset))

\* cache_qc_results. listed is how tantalus_api.list ended: its err and the
\* results records of the ticket; the id of a record is its position.
cache_qc_results(listed, full_dataset, files) ==
    IF listed.err # OK THEN [transfers |-> <<>>, err |-> listed.err, at |-> 0]
    ELSE CacheLoop([transfers |-> <<>>, err |-> OK, at |-> 0],
                   listed.results, 1, full_dataset, files)

(* db/qc.py: the aggregation over tickets *)

MaxTickets == 2      \* ticket ids handed to get_qc_data

\* _aggregate_results_tables: a dict from table name to the list of the
\* tickets' tables of that name.
_aggregate_results_tables(results_tables, ticket_results) ==
    [table_name \in (DOMAIN results_tables) \cup (DOMAIN ticket_results) |->
        IF table_name \in DOMAIN ticket_results
        THEN Append(IF table_name \in DOMAIN results_tables
                    THEN results_tables[table_name] ELSE <<>>,
                    ticket_results[table_name])
        ELSE results_tables[table_name]]

\* _concat_results_tables: every list becomes one table, the concatenation of
\* its members.
_concat_results_tables(results_tables) ==
    [table_name \in DOMAIN results_tables |->
        [concat |-> results_tables[table_name]]]

\* One step of get_qc_data on the ticket at position `pos`, as recorded:
\* which step, how it ended and how many calls it made to the tracking system
\* and the transfer utility.
QcEvent(step, pos, ticket_id, err, remote_calls) ==
    [step |-> step, pos |-> pos, ticket_id |-> ticket_id, err |-> err,
     remote_calls |-> remote_calls]

\* Lines 109-113: the loop has ended in state st; concat_err is how the
\* concatenation of the loaded tables ends.
QcReturn(st, concat_err) ==
    IF st.err # OK THEN [events |-> st.events, err |-> st.err, value |-> None]
    ELSE IF concat_err # OK
    THEN [events |-> st.events, err |-> concat_err, value |-> None]
    ELSE [events |-> st.events, err |-> OK,
          value |-> Some(_concat_results_tables(st.results_tables))]

RECURSIVE QcLoop(_, _, _, _, _, _)
\* Lines 101-107: the ticket's tables are loaded, with outcome `loaded`.
QcLoaded(st, ticket_ids, pos, do_caching, remote, loads, loaded) ==
    IF loaded.err # OK
    THEN [st EXCEPT !.events = Append(st.events,
                        QcEvent("load", pos, ticket_ids[pos], loaded.err, 0)),
                    !.err = loaded.err]
    ELSE QcLoop([st EXCEPT !.events = Append(st.events,
                               QcEvent("load", pos, ticket_ids[pos], OK, 0)),
                           !.results_tables = _aggregate_results_tables(
                               st.results_tables, loaded.tables)],
                ticket_ids, pos + 1, do_caching, remote, loads)

\* The same, were a failed caching step not to end the call.
QcCachedIgnoringFailure(st, ticket_ids, pos, do_caching, remote, loads, cached) ==
    QcLoaded([st EXCEPT !.events = Append(st.events,
                 QcEvent("cache", pos, ticket_ids[pos], cached.err,
                         1 + Len(cached.transfers)))],
             ticket_ids, pos, do_caching, remote, loads, loads[pos])

\* Line 99: cache_qc_results for the ticket has ended with outcome `cached`.
QcCached(st, ticket_ids, pos, do_caching, remote, loads, cached) ==
    IF cached.err # OK
    THEN [st EXCEPT !.events = Append(st.events,
                        QcEvent("cache", pos, ticket_ids[pos], cached.err,
                                1 + Len(cached.transfers))),
                    !.err = cached.err]
    ELSE QcLoaded([st EXCEPT !.events = Append(st.events,
                       QcEvent("cache", pos, ticket_ids[pos], OK,
                               1 + Len(cached.transfers)))],
                  ticket_ids, pos, do_caching, remote, loads, loads[pos])

\* The loop of lines 97-107 from position pos of ticket_ids.
QcLoop(st, ticket_ids, pos, do_caching, remote, loads) ==
    IF st.err # OK \/ pos > Len(ticket_ids) THEN st
    ELSE IF do_caching
    THEN QcCached(st, ticket_ids, pos, do_caching, remote, loads,
                  cache_qc_results(remote[ticket_ids[pos]].listed, FALSE,
                                   remote[ticket_ids[pos]].files))
    ELSE QcLoaded(st, ticket_ids, pos, do_caching, remote, loads, loads[pos])

\* get_qc_data. remote is what the tracking system and the transfer utility
\* hold for each ticket, loads[pos] how load_qc_data ends for the ticket at
\* position pos, concat_err how the final concatenation ends.
get_qc_data(ticket_ids, do_caching, remote, loads, concat_err) ==
    QcReturn(QcLoop([events |-> <<>>, results_tables |-> <<>>, err |-> OK],
                    ticket_ids, 1, do_caching, remote, loads),
             concat_err)

(* The QC cache *)

ResultsRecords == [results_type : ResultsTypes, results_version : ResultsVersions]

RECURSIVE SeqsUpTo(_, _)
SeqsUpTo(S, n) ==
    IF n = 0 THEN {<<>>}
    ELSE SeqsUpTo(S, n - 1) \cup
         {Append(q, x) : q \in {w \in SeqsUpTo(S, n - 1) : Len(w) = n - 1}, x \in S}

\* How a query of the tracking system can end.
Listings ==
    {[err |-> "ConnectionError", results |-> <<>>]} \cup
    {[err |-> OK, results |-> rs] : rs \in SeqsUpTo(ResultsRecords, MaxResults)}

CacheQcResults ==
    /\ call = NoCall
    /\ \E listed \in Listings, full_dataset \in BOOLEAN,
          files \in [1..(2 * MaxResults) -> FileCounts] :
         LET res == cache_qc_results(listed, full_dataset, files) IN
         call' = [op |-> "cache_qc_results",
                  args |-> [listed |-> listed, full_dataset |-> full_dataset,
                            files |-> files],
                  err |-> res.err, transfers |-> res.transfers, at |-> res.at]
    /\ UNCHANGED <<nodes, rng, prev>>

NextCache == CacheQcResults

SpecCache == InitNoRng /\ [][NextCache]_vars

(* The aggregation over tickets *)

TicketIds == {"SC-1", "SC-2"}
TableNames == {"hmmcopy_reads", "annotation_metrics"}

\* What the remote side holds for a ticket: the query fails, or it lists one
\* alignment record whose transfers return files[k] files, or one record of
\* an unknown stage.
RemoteContents ==
    {[listed |-> [err |-> "ConnectionError", results |-> <<>>],
      files |-> [k \in 1..(2 * MaxResults) |-> 1]]} \cup
    {[listed |-> [err |-> OK,
                  results |-> <<[results_type |-> ty, results_version |-> "v1"]>>],
      files |-> [k \in 1..(2 * MaxResults) |-> n]] :
        ty \in {"alignment", "other"}, n \in {0, 1}}

\* How load_qc_data can end on a ticket directory: it raises, or it returns
\* some of the tables.
LoadOutcomes(pos) ==
    {[err |-> "LoadError", tables |-> <<>>]} \cup
    {[err |-> OK, tables |-> [table_name \in S |-> pos]] :
        S \in (SUBSET TableNames) \ {{}}}

GetQcData ==
    /\ call = NoCall
    /\ \E n \in 0..MaxTickets, do_caching \in BOOLEAN,
          concat_err \in {OK, "ValueError"} :
         \E ticket_ids \in [1..n -> TicketIds],
            remote \in [TicketIds -> RemoteContents] :
           \E loads \in {f \in [1..n -> UNION {LoadOutcomes(q) : q \in 1..n}] :
                           \A q \in 1..n : f[q] \in LoadOutcomes(q)} :
             LET res == get_qc_data(ticket_ids, do_caching, remote, loads, concat_err)
             IN call' = [op |-> "get_qc_data",
                         args |-> [ticket_ids |-> ticket_ids,
                                   do_caching |-> do_caching, remote |-> remote,
                                   loads |-> loads, concat_err |-> concat_err],
                         err |-> res.err, value |-> res.value,
                         events |-> res.events]
    /\ UNCHANGED <<nodes, rng, prev>>

NextQc == GetQcData

SpecQc == InitNoRng /\ [][NextQc]_vars

(* The batch of simulations *)

MaxTrials == 2       \* trials_per_set
MaxCores == 2        \* num_cores

\* The candidate values handed in: num_bin has one or two candidates.
GridCols ==
    {<<(<<1>>), num_bins, (<<2>>), (<<1>>), (<<(<<1, 1>>)>>), (<<(<<1, 1>>)>>)>> :
        num_bins \in {<<1>>, <<1, 2>>}}

ManyPoissonBicluster ==
    /\ call = NoCall
    /\ \E trials_per_set \in 1..MaxTrials, cols \in GridCols,
          num_cores \in {None} \cup {Some(c) : c \in 1..MaxCores},
          v \in LLValues :
         \E ws \in [1..(IF num_cores = None THEN 0 ELSE num_cores[1]) -> RngStates] :
           \E first \in 1..Max2(Len(ws), 1) :
             LET res == many_poisson_bicluster(rng, trials_per_set, cols, num_cores,
                                               MllConst(v), ws, first)
             IN /\ (res.err # OK /\ num_cores # None) => res.parts[first].err # OK
                /\ call' = [op |-> "many_poisson_bicluster",
                            args |-> [trials_per_set |-> trials_per_set, cols |-> cols,
                                      num_cores |-> num_cores, mll |-> MllConst(v),
                                      ws |-> ws, first |-> first],
                            err |-> res.err, value |-> res.value,
                            ran |-> [w \in 1..Len(res.parts) |-> res.parts[w].ran]]
                /\ rng' = IF num_cores = None THEN res.rng ELSE rng
                /\ nodes' = IF num_cores = None THEN res.nodes ELSE nodes
    /\ UNCHANGED prev

NextMany == ManyPoissonBicluster

SpecMany == Init /\ [][NextMany]_vars

(* The accuracy of a clustering table *)

MaxRows == 4         \* rows of a clustering table

GetPropCorrect ==
    /\ call = NoCall
    /\ \E n \in 1..MaxRows :
         \E exp_cl \in [1..n -> {"1", "2"}], obs_cl \in [1..n -> {"1", "2", "None"}] :
           call' = [op |-> "get_prop_correct",
                    args |-> [exp_cl |-> exp_cl, obs_cl |-> obs_cl],
                    err |-> OK, value |-> get_prop_correct(exp_cl, obs_cl)]
    /\ UNCHANGED <<nodes, rng, prev>>

NextProp == GetPropCorrect

SpecProp == InitNoRng /\ [][NextProp]_vars

----------------------------------------------------------------------------
(* Properties of bayesian_cluster, read off the state a call leaves: its    *)
(* outcome in `call` and the nodes it built in `nodes`.                     *)

IsBc == call.op = "bayesian_cluster"
BcN == Len(call.args.meas)          \* n, the number of cells
BcLinkage == call.value[1]
BcRoot == call.value[2]

\* The node that carries cluster_ind ci.
NodeOfInd(ci) == CHOOSE k \in 1..Len(nodes) : nodes[k].cluster_ind = ci

PosIn(pool, k) == CHOOSE a \in 1..Len(pool) : pool[a] = k

\* The active pool, in list order, when merge step s (s = 0, 1, ...) begins: the
\* leaves at first, and after a step the selected node in the place of its left
\* child, its right child removed.
RECURSIVE PoolAt(_)
PoolAt(s) ==
    IF s = 0 THEN LeafRefs(BcN)
    ELSE LET pool == PoolAt(s - 1)
             sel == NodeOfInd(BcN + s - 1)
         IN DelAt([pool EXCEPT ![PosIn(pool, nodes[sel].left_child)] = sel],
                  PosIn(pool, nodes[sel].right_child))

\* The candidate merge node of two nodes of the pool.
CandidateOf(a, b) ==
    CHOOSE c \in 1..Len(nodes) : nodes[c].left_child = a /\ nodes[c].right_child = b

\* C1: for every n >= 1 bayesian_cluster on n cells ends with a linkage table of
\* exactly n - 1 rows, every row has merge_count = i_count + j_count with i_count
\* and j_count the member counts of the two clusters merged at that step, and
\* the last row's merge_count is n.
C1_LinkageRows ==
    IsBc =>
      /\ call.err = OK
      /\ Len(BcLinkage) = BcN - 1
      /\ \A k \in 1..Len(BcLinkage) :
           /\ BcLinkage[k].i_count =
                Num(Len(nodes[NodeOfInd(BcLinkage[k].i.n)].sample_inds))
           /\ BcLinkage[k].j_count =
                Num(Len(nodes[NodeOfInd(BcLinkage[k].j.n)].sample_inds))
           /\ BcLinkage[k].merge_count =
                Num(BcLinkage[k].i_count.n + BcLinkage[k].j_count.n)
      /\ BcN >= 2 => BcLinkage[BcN - 1].merge_count = Num(BcN)

\* C2: after bayesian_cluster on n cells, get_leaves() on the returned root
\* gives exactly n nodes, each one of the leaves built at initialisation, none
\* twice, and their single sample indices are 0..n-1, each exactly once.
C2_RootLeaves ==
    IsBc =>
      /\ call.err = OK
      /\ LET leaves == get_leaves(nodes, BcRoot, <<>>) IN
         /\ Len(leaves) = BcN
         /\ \A x \in 1..Len(leaves) : leaves[x] \in 1..BcN
         /\ \A x, y \in 1..Len(leaves) : x # y => leaves[x] # leaves[y]
         /\ \A i \in 0..(BcN - 1) :
              Cardinality({x \in 1..Len(leaves) :
                             nodes[leaves[x]].sample_inds = <<i>>}) = 1

\* C4: in bayesian_cluster on n cells the leaves carry cluster_ind 0..n-1, a
\* candidate that was never selected carries -1, the node selected at merge
\* step k (k = 0..n-2) carries n + k; so the nodes of the active pool always
\* have pairwise distinct non-negative cluster_inds, linkage row k names as i
\* and j two distinct ids below n + k, and no id is named by two rows.
C4_ClusterInds ==
    IsBc =>
      /\ call.err = OK
      /\ \A k \in 1..BcN : nodes[k].cluster_ind = k - 1
      /\ \A k \in (BcN + 1)..Len(nodes) :
           nodes[k].cluster_ind \in {-1} \cup (BcN..(2 * BcN - 2))
      /\ \A s \in 0..(BcN - 2) :
           /\ Cardinality({k \in 1..Len(nodes) : nodes[k].cluster_ind = BcN + s}) = 1
           /\ BcLinkage[s + 1].i = Num(nodes[nodes[NodeOfInd(BcN + s)].left_child].cluster_ind)
           /\ BcLinkage[s + 1].j = Num(nodes[nodes[NodeOfInd(BcN + s)].right_child].cluster_ind)
           /\ BcLinkage[s + 1].i # BcLinkage[s + 1].j
           /\ BcLinkage[s + 1].i.n \in 0..(BcN + s - 1)
           /\ BcLinkage[s + 1].j.n \in 0..(BcN + s - 1)
           /\ \A a, b \in 1..Len(PoolAt(s)) :
                /\ nodes[PoolAt(s)[a]].cluster_ind >= 0
                /\ a # b => nodes[PoolAt(s)[a]].cluster_ind # nodes[PoolAt(s)[b]].cluster_ind
      /\ Cardinality(UNION {{BcLinkage[k].i.n, BcLinkage[k].j.n} : k \in 1..(BcN - 1)})
           = 2 * (BcN - 1)

\* C5: at every merge step of bayesian_cluster the pair (i, j), i < j, of pool
\* positions that is merged has a log_r at least that of every other pair of
\* the pool at that step, it is the first such pair in row-major order, and the
\* r_merge of the step's linkage row is that log_r.
C5_MaxLogR ==
    IsBc =>
      /\ call.err = OK
      /\ \A s \in 0..(BcN - 2) :
           LET pool == PoolAt(s)
               sel == NodeOfInd(BcN + s)
               i == PosIn(pool, nodes[sel].left_child)
               j == PosIn(pool, nodes[sel].right_child)
           IN
           /\ i < j
           /\ BcLinkage[s + 1].r_merge = nodes[sel].log_r
           /\ \A a, b \in 1..Len(pool) :
                a < b =>
                  LET c == CandidateOf(pool[a], pool[b]) IN
                  /\ ~FGreater(nodes[c].log_r, nodes[sel].log_r)
                  /\ nodes[c].log_r = nodes[sel].log_r =>
                       (i < a \/ (i = a /\ j <= b))

\* The merge nodes the memo holds, or held, under the key of the pair of
\* nodes a and b: those whose sample_inds is the two lists put together.
MemoNodesOf(a, b) ==
    {c \in (BcN + 1)..Len(nodes) :
        nodes[c].sample_inds = nodes[a].sample_inds \o nodes[b].sample_inds}

\* C15: in bayesian_cluster, at every merge step and for every pair of
\* positions i < j of the active pool, the candidate found under the pair's
\* key, built at this step or taken from the memo, has the nodes now at
\* positions i and j as its left and right child and their sample_inds put
\* together as its own; no entry built from other nodes, consumed since, is
\* ever found under that key.
C15_MemoSound ==
    IsBc =>
      /\ call.err = OK
      /\ \A s \in 0..(BcN - 2) :
           \A a, b \in 1..Len(PoolAt(s)) :
              a < b =>
                /\ Cardinality(MemoNodesOf(PoolAt(s)[a], PoolAt(s)[b])) = 1
                /\ \A c \in MemoNodesOf(PoolAt(s)[a], PoolAt(s)[b]) :
                     /\ nodes[c].left_child = PoolAt(s)[a]
                     /\ nodes[c].right_child = PoolAt(s)[b]

----------------------------------------------------------------------------
(* Properties of the node API *)

IsMethod(c, ops) == c.op \in ops

MissingChild(node) ==
    /\ ~is_leaf(node)
    /\ (node.left_child = NullRef \/ node.right_child = NullRef)

\* The error that the message NO_CHILDREN (line 4) is meant for.
NO_CHILDREN == "ValueError(NO_CHILDREN)"

\* C3: update_vars on a leaf (both children absent, exactly one sample index)
\* completes all four update steps, pi/d, ll, tree_ll and log_r, and leaves the
\* node with pi = 1, d = alpha and ll = 1.
C3_LeafUpdateVars ==
    (IsMethod(call, {"update_vars"}) /\ is_leaf(nodes[call.self])) =>
      /\ call.err = OK
      /\ nodes[call.self].pi = Num(1)
      /\ nodes[call.self].d = Num(call.alpha)
      /\ nodes[call.self].ll = Num(1)
      /\ nodes[call.self].tree_ll # NoneV
      /\ nodes[call.self].log_r # NoneV

\* C6: update_pi_d, or update_vars, on a node that is not a leaf and has its
\* left child, its right child or both absent fails with the missing-children
\* (NO_CHILDREN) error and assigns neither pi nor d.
C6_NoChildren ==
    [][(IsMethod(call', {"update_pi_d", "update_vars"})
          /\ MissingChild(nodes[call'.self])) =>
         /\ call'.err = NO_CHILDREN
         /\ nodes'[call'.self].pi = nodes[call'.self].pi
         /\ nodes'[call'.self].d = nodes[call'.self].d]_vars

----------------------------------------------------------------------------
(* Properties of the simulation *)

IsPb == call.op = "poisson_bicluster"

\* What poisson_bicluster hands back: the five results.
FiveResults(v) == Len(v) = 5

\* C7: poisson_bicluster with valid parameters consumes the result of
\* bayesian_cluster and returns normally: the 5-tuple (copy-number table, plot
\* linkage, plot matrix, clustering comparison table, accuracy) when no
\* accumulator row is given, or the accumulator row with those values written
\* onto it when df is supplied.
C7_BiclusterReturns ==
    IsPb =>
      /\ call.err = OK
      /\ call.args.df = None => FiveResults(call.value)
      /\ call.args.df # None =>
           /\ Len(call.value) = 1
           /\ call.value[1].row = call.args.df[1]
           /\ FiveResults(call.value[1].written)

IsCn == call.op = "cn_mat_poisson"

\* C8: for every num_sample, num_bin >= 1, max_cn >= 0 and every outcome of the
\* draws, every entry of the matrix cn_mat_poisson returns, column 0 included,
\* lies in [0, max_cn].
C8_EntriesInRange ==
    IsCn =>
      \A r \in 1..call.args.num_sample, c \in 1..call.args.num_bin :
         call.value[r][c] \in 0..call.args.max_cn

\* C9: two calls of cn_mat_poisson with identical arguments and the same
\* non-absent seed return identical matrices, whatever the state of the global
\* generator before each call.
C9_SeedDeterministic ==
    (IsCn /\ prev # NoCall /\ call.args.seed # None) =>
      /\ prev.args = call.args
      /\ prev.value = call.value

\* The two calls were seeded, started from different generator states and drew
\* a matrix with jumps in it.
C9_Witness ==
    /\ IsCn
    /\ prev # NoCall
    /\ call.args.seed # None
    /\ prev.rng_before # call.rng_before
    /\ call.args.num_bin > 1
    /\ call.args.init_lambda > 0
    /\ call.args.jump_lambda > 0
    /\ prev.value = call.value

----------------------------------------------------------------------------
(* Properties of the colour map *)

IsColorMap == call.op = "get_cluster_color_map"

\* C10: for every array of cluster ids that contains -1, get_cluster_color_map
\* returns a map in which -1 has the colour (0.75, 0.75, 0.75, 1.0), whether
\* zero, one or more distinct non-negative ids are present too.
C10_MinusOneGray ==
    (IsColorMap /\ -1 \in SeqToSet(call.args)) =>
      /\ call.err = OK
      /\ -1 \in DOMAIN call.value
      /\ call.value[-1] = Gray

----------------------------------------------------------------------------
(* Properties of the QC cache *)

IsCache == call.op = "cache_qc_results"

Recognized(results) ==
    results.results_type \in
      {"alignment", "hmmcopy", "annotation", "cell_state_prediction"}

\* The transfers issued for record r.
TransfersOf(r) == {k \in 1..Len(call.transfers) : call.transfers[k].results_id = r}

\* The loop got past record r without raising.
WentPast(r) == call.err = OK \/ call.at > r

\* C11: in cache_qc_results, when the transfer for a required suffix (a table
\* suffix of the record's stage and version, or metadata.yaml) returns a number
\* of files other than one, the call raises and issues no further transfer,
\* for the remaining suffixes or for the remaining records.
C11_InconsistencyRaises ==
    IsCache =>
      \A k \in 1..Len(call.transfers) :
         (call.transfers[k].suffix_filter # NoSuffix /\ call.transfers[k].n # 1) =>
           /\ call.err = "Exception"
           /\ call.at = call.transfers[k].results_id
           /\ k = Len(call.transfers)

\* The first record's table suffix came back with two files; its metadata
\* and a second record of a recognized stage were still to be fetched.
C11_Witness ==
    /\ IsCache
    /\ ~call.args.full_dataset
    /\ Len(call.args.listed.results) = 2
    /\ Recognized(call.args.listed.results[2])
    /\ Len(call.transfers) = 1
    /\ call.transfers[1].suffix_filter \notin {NoSuffix, "metadata.yaml"}
    /\ call.transfers[1].n = 2
    /\ call.err = "Exception"

\* What is said of a record r of no recognized stage: no transfer is issued
\* for it, the call does not raise at it, and the loop goes on to the record
\* after it.
UnrecognizedSkipped(r) ==
    /\ TransfersOf(r) = {}
    /\ call.at # r
    /\ (/\ r < Len(call.args.listed.results)
        /\ WentPast(r)
        /\ call.args.full_dataset \/ Recognized(call.args.listed.results[r + 1]))
          => (TransfersOf(r + 1) # {} \/ call.at = r + 1)

\* C12 as stated: for every results record of none of the four stages no
\* transfer is issued and no error raised because of it, for either value of
\* full_dataset, and processing continues with the next record.
C12_UnrecognizedSkipped ==
    IsCache =>
      \A r \in 1..Len(call.args.listed.results) :
         ~Recognized(call.args.listed.results[r]) => UnrecognizedSkipped(r)

\* C12, amended: the same when full_dataset is not set.
C12_UnrecognizedSkippedUnlessFull ==
    (IsCache /\ ~call.args.full_dataset) =>
      \A r \in 1..Len(call.args.listed.results) :
         ~Recognized(call.args.listed.results[r]) => UnrecognizedSkipped(r)

\* An unrecognized record was passed over and the record after it fetched.
C12_Witness ==
    /\ IsCache
    /\ ~call.args.full_dataset
    /\ Len(call.args.listed.results) >= 2
    /\ ~Recognized(call.args.listed.results[1])
    /\ Recognized(call.args.listed.results[2])
    /\ TransfersOf(1) = {}
    /\ TransfersOf(2) # {}
    /\ call.err = OK

----------------------------------------------------------------------------
(* Properties of the aggregation over tickets *)

IsQc == call.op = "get_qc_data"

\* The steps get_qc_data takes when none fails, in order: for each ticket in
\* turn its caching, when do_caching is set, and then its loading.
QcSchedule ==
    LET per == IF call.args.do_caching THEN 2 ELSE 1 IN
    [k \in 1..(per * Len(call.args.ticket_ids)) |->
        [step |-> IF call.args.do_caching /\ (k - 1) % 2 = 0 THEN "cache" ELSE "load",
         pos |-> ((k - 1) \div per) + 1]]

\* C13: get_qc_data processes the tickets one after another in the given
\* order; with do_caching a ticket's cache_qc_results finishes before its
\* tables are loaded, without it no call goes to the tracking system or the
\* transfer utility; if a caching or loading step fails the call raises, no
\* later ticket is cached or loaded and no results bundle is returned.
C13_TicketsInOrder ==
    IsQc =>
      /\ Len(call.events) <= Len(QcSchedule)
      /\ \A k \in 1..Len(call.events) :
           /\ call.events[k].step = QcSchedule[k].step
           /\ call.events[k].pos = QcSchedule[k].pos
           /\ call.events[k].ticket_id = call.args.ticket_ids[QcSchedule[k].pos]
           /\ k < Len(call.events) => call.events[k].err = OK
           /\ ~call.args.do_caching => call.events[k].remote_calls = 0
           /\ call.events[k].err # OK => (call.err = call.events[k].err /\ call.value = None)
      /\ call.err # OK => call.value = None
      /\ call.err = OK => (Len(call.events) = Len(QcSchedule) /\ call.value # None)

\* The first of two tickets was cached with transfers made, its loading
\* failed, and the second ticket was left alone.
C13_Witness ==
    /\ IsQc
    /\ call.args.do_caching
    /\ Len(call.args.ticket_ids) = 2
    /\ Len(call.events) = 2
    /\ call.events[1].step = "cache"
    /\ call.events[1].remote_calls >= 2
    /\ call.events[2].step = "load"
    /\ call.events[2].err # OK
    /\ call.err # OK
    /\ call.value = None

----------------------------------------------------------------------------
(* Properties of the batch of simulations *)

IsMany == call.op = "many_poisson_bicluster"

\* The parameter grid replicated trials_per_set times.
ManyFrame == Replicated(expand_grid(call.args.cols), call.args.trials_per_set)

\* The parameters of a row, without its index.
RowParams(df) ==
    <<df.samples_per_cluster, df.num_bin, df.max_cn, df.alpha, df.init_lambdas,
      df.jump_lambdas>>

\* How many trials the call ran in all.
RECURSIVE TrialsRun(_)
TrialsRun(w) == IF w = 0 THEN 0 ELSE Len(call.ran[w]) + TrialsRun(w - 1)

\* C14: many_poisson_bicluster runs poisson_bicluster exactly once for each
\* row of the replicated grid, returns only after every trial has finished,
\* and the k-th row of its result corresponds to the k-th row of the
\* replicated grid, serially and over num_cores worker processes alike.
C14_EveryTrialInOrder ==
    IsMany =>
      /\ call.err = OK
      /\ call.value # None
      /\ TrialsRun(Len(call.ran)) = Len(ManyFrame)
      /\ Len(call.value[1]) = Len(ManyFrame)
      /\ \A k \in 1..Len(ManyFrame) :
           RowParams(call.value[1][k].row) = RowParams(ManyFrame[k])

----------------------------------------------------------------------------
(* Properties of the accuracy *)

IsProp == call.op = "get_prop_correct"

\* m: the cells whose observed side label is their expected cluster label.
Matching == Cardinality({k \in 1..Len(call.args.exp_cl) :
                           call.args.exp_cl[k] = call.args.obs_cl[k]})

\* The observed labels with the sides '1' and '2' swapped for all cells.
SwappedSides(obs_cl) ==
    [k \in 1..Len(obs_cl) |->
        IF obs_cl[k] = "1" THEN "2" ELSE IF obs_cl[k] = "2" THEN "1" ELSE obs_cl[k]]

EverySideLabelled(obs_cl) == \A k \in 1..Len(obs_cl) : obs_cl[k] \in {"1", "2"}

\* C16: get_prop_correct returns max(m, N - m) / N, N the number of cells and
\* m the number of cells whose observed side label equals the expected one;
\* hence the accuracy is never below 0.5 and is unchanged when the labels '1'
\* and '2' of the two sides are swapped for all cells.
C16_BestSplitShare ==
    IsProp =>
      /\ call.value = Rat(Max2(Matching, Len(call.args.exp_cl) - Matching),
                          Len(call.args.exp_cl))
      /\ 2 * call.value.n >= call.value.d
      /\ EverySideLabelled(call.args.obs_cl) =>
           get_prop_correct(call.args.exp_cl, SwappedSides(call.args.obs_cl))
             = call.value

\* Fewer than half of the cells agree, every cell has a side, and the share
\* returned is that of the cells that disagree.
C16_Witness ==
    /\ IsProp
    /\ Len(call.args.exp_cl) >= 3
    /\ EverySideLabelled(call.args.obs_cl)
    /\ Matching >= 1
    /\ 2 * Matching < Len(call.args.exp_cl)
    /\ call.value = Rat(Len(call.args.exp_cl) - Matching, Len(call.args.exp_cl))

====
